---- MODULE Spec2Model ----
(***************************************************************************)
(* kube-resource (clustering/kube-resource.py): one Ansible module run      *)
(* probes a kubernetes resource with "kubectl get", picks a branch from     *)
(* (state, present), runs create / delete / rolling-update and reports.     *)
(*                                                                          *)
(* Text is kept structured: a command token and a %-formatted message are   *)
(* tuples of their pieces (<<"--namespace=", ns>> is '--namespace=' + ns).  *)
(* kubectl and the cluster are the environment: exit codes, stdout and      *)
(* stderr of every run_command are nondeterministic.                        *)
(***************************************************************************)
EXTENDS Integers, Sequences, FiniteSets, TLC

\* ---------------------------------------------------------------- bounds
MaxRuns == 2        \* invocations of the module in one behaviour
MaxExit == 1        \* exit codes of kubectl range over -1 .. MaxExit
MaxItems == 1       \* longest "items" list in a decoded get response

\* ---------------------------------------------------------------- inputs
Types == {"rc", "svc", "secret", "endpoints", "namespace"}
States == {"created", "deleted", "recreated", "updated"}
InputNames == {"my-app"}
LiveNames == {"my-app", "my-app-v2"}
Namespaces == {"default"}
NoSrc == "<no src>"
Sources == {"/etc/kubernetes/my-app.yml", NoSrc}
ExitCodes == (0 - 1) .. MaxExit
Stdouts == {"done"}
Stderrs == {"", "boom"}

\* ------------------------------------------------- decoded JSON documents
\* An element of response['items']: named iff it has ['metadata']['name'].
Items == [named : {TRUE}, name : LiveNames] \cup {[named |-> FALSE, name |-> ""]}

RECURSIVE SeqsUpTo(_, _)
SeqsUpTo(S, n) ==
    IF n = 0 THEN {<<>>}
    ELSE LET shorter == SeqsUpTo(S, n - 1)
         IN shorter \cup {Append(s, x) : s \in {t \in shorter : Len(t) = n - 1}, x \in S}

\* Python None, in the shape of a document so that values stay comparable.
None == [kind |-> "None", keys |-> {}, items |-> <<>>]

\* What json.loads can return: an object (its keys, and the list under
\* "items" when it has that key) or a value without a length.
Keys == {"kind", "items"}
Docs ==
    {[kind |-> "object", keys |-> k, items |-> <<>>] : k \in SUBSET (Keys \ {"items"})}
    \cup {[kind |-> "object", keys |-> k \cup {"items"}, items |-> i] :
              k \in SUBSET (Keys \ {"items"}), i \in SeqsUpTo(Items, MaxItems)}
    \cup {[kind |-> "number", keys |-> {}, items |-> <<>>]}

\* stdout of "kubectl get": JSON text of a document, or text that is no JSON.
Garbage == [json |-> FALSE, doc |-> None]
Encode(doc) == [json |-> TRUE, doc |-> doc]

\* len(response)
PyLen(response) == Cardinality(response.keys)

\* ---------------------------------------------------------- command lines
\* get_cmd: [module.get_bin_path('kubectl', True)]
get_cmd == << <<"kubectl">> >>

add_selector(cmd, resource_type, name) ==
    IF resource_type = "rc"
    THEN Append(cmd, <<"-l k8s-app=", name>>)
    ELSE Append(cmd, <<name>>)

get_argv(resource_type, name, namespace) ==
    add_selector(get_cmd \o << <<"get">>, <<resource_type>> >>, resource_type, name)
        \o << <<"-o">>, <<"json">>, <<"--namespace=", namespace>> >>

delete_argv(resource_type, name, namespace) ==
    Append(add_selector(get_cmd \o << <<"delete">>, <<resource_type>> >>, resource_type, name),
           <<"--namespace=", namespace>>)

create_argv(src, namespace) ==
    get_cmd \o << <<"create">>, <<"-f">>, <<src>>, <<"--namespace=", namespace>> >>

\* rolling-update addressing the controller by label, as get and delete do
rolling_update_argv_by_label(name, src, namespace) ==
    get_cmd \o << <<"rolling-update">>, <<"-l k8s-app=", name>>, <<"-f">>, <<src>>,
                  <<"--namespace=", namespace>> >>

rolling_update_argv(name, src, namespace) ==
    get_cmd \o << <<"rolling-update">>, <<name>>, <<"-f">>, <<src>>, <<"--namespace=", namespace>> >>

\* check-mode messages
delete_msg(resource_type, name, namespace) == <<"deleting", resource_type, name, "in namespace", namespace>>
create_msg(src, namespace) == <<"creating resource in namespace", namespace, "using", src>>
rolling_update_msg(name, src, namespace) ==
    <<"perform rolling update of rc with label", name, "in namespace", namespace, "using", src>>

\* ------------------------------------------------------------- is_present
\* is_present treating undecodable output like a failed get
is_present_swallowing(rc, out) ==
    IF rc = 0 /\ out.json
    THEN LET response == out.doc IN
         IF response.kind # "object"
         THEN [raised |-> TRUE, present |-> FALSE, response |-> None]
         ELSE [raised |-> FALSE,
               present |-> IF "items" \in response.keys
                           THEN Len(response.items) # 0
                           ELSE PyLen(response) # 0,
               response |-> response]
    ELSE [raised |-> FALSE, present |-> FALSE, response |-> None]

\* is_present without the look at response['items']
is_present_by_len(rc, out) ==
    IF rc = 0
    THEN IF ~out.json
         THEN [raised |-> TRUE, present |-> FALSE, response |-> None]
         ELSE LET response == out.doc IN
              IF response.kind # "object"
              THEN [raised |-> TRUE, present |-> FALSE, response |-> None]
              ELSE [raised |-> FALSE, present |-> PyLen(response) # 0, response |-> response]
    ELSE [raised |-> FALSE, present |-> FALSE, response |-> None]

\* The outcome of is_present once "kubectl get" returned (rc, out):
\* raised = an exception left the function (json.loads or len failed).
is_present(rc, out) ==
    IF rc = 0
    THEN IF ~out.json
         THEN [raised |-> TRUE, present |-> FALSE, response |-> None]
         ELSE LET response == out.doc IN
              IF response.kind # "object"
              THEN [raised |-> TRUE, present |-> FALSE, response |-> None]
              ELSE [raised |-> FALSE,
                    present |-> IF "items" \in response.keys
                                THEN Len(response.items) # 0
                                ELSE PyLen(response) # 0,
                    response |-> response]
    ELSE [raised |-> FALSE, present |-> FALSE, response |-> None]

\* ------------------------------------------------------------------- main
\* The chain with the first test forgetting "and not present"
Branch_always_create(state, present) ==
    IF state = "created" THEN "create"
    ELSE IF state = "deleted" /\ present THEN "delete"
    ELSE IF state = "recreated" THEN (IF present THEN "delete_create" ELSE "create")
    ELSE IF state = "updated" THEN (IF present THEN "rolling_update" ELSE "create")
    ELSE "else"

\* The if/elif chain of main: which branch (state, present) selects.
Branch(state, present) ==
    IF state = "created" /\ ~present THEN "create"
    ELSE IF state = "deleted" /\ present THEN "delete"
    ELSE IF state = "recreated" THEN (IF present THEN "delete_create" ELSE "create")
    ELSE IF state = "updated" THEN (IF present THEN "rolling_update" ELSE "create")
    ELSE "else"

\* the test written as rc > 0: a command killed by a signal passes
Failed_positive(rc) == rc > 0

\* rc is not None and rc != 0
Failed(rc) == rc # 0

\* data['items'][0]['metadata']['name'] can be evaluated
HasTargetName(data) == "items" \in data.keys /\ Len(data.items) > 0 /\ data.items[1].named
TargetName(data) == data.items[1].name

\* ------------------------------------------------------- result records
\* What the invocation hands back: "keys" are the fields the record carries.
NoResult ==
    [how |-> "none", keys |-> {}, changed |-> FALSE, stdout |-> "", stderr |-> "",
     msg |-> <<>>, name |-> "", rc |-> 0]

\* module.exit_json(**result) at the end of main
exit_json(out, err, changed) ==
    [NoResult EXCEPT !.how = "exit_json", !.keys = {"stdout", "stderr", "changed"},
                     !.stdout = out, !.stderr = err, !.changed = changed]

\* log_change_and_exit: result['changed'] = True; result['msg'] = msg
log_change_and_exit(msg) ==
    [NoResult EXCEPT !.how = "exit_json", !.keys = {"changed", "msg"},
                     !.changed = TRUE, !.msg = msg]

\* module.fail_json(name=name, msg=err, rc=rc)
fail_json(name, err, rc) ==
    [NoResult EXCEPT !.how = "fail_json", !.keys = {"name", "msg", "rc"},
                     !.name = name, !.msg = <<err>>, !.rc = rc]

\* AnsibleModule(argument_spec=...) rejecting the arguments: src is required
missing_src == [NoResult EXCEPT !.how = "fail_json", !.keys = {"msg"},
                                !.msg = <<"missing required arguments", "src">>]

\* get_bin_path('kubectl', True) not finding the binary
missing_kubectl == [NoResult EXCEPT !.how = "fail_json", !.keys = {"msg"},
                                    !.msg = <<"Failed to find required executable", "kubectl">>]

\* an exception nobody catches
unhandled == [NoResult EXCEPT !.how = "exception"]

\* ------------------------------------------------------------------ state
VARIABLES
    pc,          \* where the invocation is: idle, parsed, probed, deleted, ran, exit, fail, error
    params,      \* module.params
    check_mode,  \* module.check_mode
    kubectl,     \* whether get_bin_path finds kubectl
    present,     \* main: present
    data,        \* main: data
    rc, out, err, changed,   \* main: the locals of the same names
    probe,       \* the "kubectl get" call of this invocation
    cmds,        \* the create / delete / rolling-update calls of this invocation, in order
    result,      \* what the invocation returned
    cluster,     \* the document "kubectl get" prints for the probed resource
    last,        \* between invocations: the invocation that just ended, when it had
                 \* state=created and completed successfully
    repeat,      \* this invocation repeats, with the same inputs and on the cluster as
                 \* it was left, a state=created invocation that completed successfully
    runs         \* invocations started

vars == <<pc, params, check_mode, kubectl, present, data, rc, out, err, changed,
          probe, cmds, result, cluster, repeat, last, runs>>

Params == [src : Sources, name : InputNames, namespace : Namespaces, type : Types, state : States]

NoParams == [src |-> NoSrc, name |-> "", namespace |-> "", type |-> "", state |-> ""]
NoLast == [valid |-> FALSE, params |-> NoParams, check_mode |-> FALSE]
NoProbe == [ran |-> FALSE, argv |-> <<>>, rc |-> 0, out |-> Garbage]

Terminal == {"exit", "fail", "error"}

Init ==
    /\ pc = "idle"
    /\ params = NoParams
    /\ check_mode = FALSE
    /\ kubectl = TRUE
    /\ present = FALSE
    /\ data = None
    /\ rc = 0 /\ out = "" /\ err = "" /\ changed = FALSE
    /\ probe = NoProbe
    /\ cmds = <<>>
    /\ result = NoResult
    /\ cluster \in Docs
    /\ repeat = FALSE
    /\ last = NoLast
    /\ runs = 0

\* A fresh process: AnsibleModule(...) parses and validates the arguments.
Invoke ==
    /\ pc = "idle"
    /\ runs < MaxRuns
    /\ runs' = runs + 1
    /\ params' \in Params
    /\ check_mode' \in BOOLEAN
    /\ kubectl' \in BOOLEAN
    /\ repeat' = (last.valid /\ params' = last.params /\ check_mode' = last.check_mode)
    /\ last' = NoLast
    /\ present' = FALSE /\ data' = None
    /\ rc' = 0 /\ out' = "" /\ err' = "" /\ changed' = FALSE
    /\ probe' = NoProbe /\ cmds' = <<>>
    /\ IF params'.src = NoSrc
       THEN pc' = "fail" /\ result' = missing_src
       ELSE pc' = "parsed" /\ result' = NoResult
    /\ UNCHANGED cluster

\* present, data = is_present(module, resource_type, name, namespace); changed = True
Probe ==
    /\ pc = "parsed"
    /\ IF ~kubectl
       THEN /\ pc' = "fail" /\ result' = missing_kubectl
            /\ UNCHANGED <<present, data, changed, probe>>
       ELSE \E c \in ExitCodes, o \in {Encode(cluster), Garbage} :
              LET r == is_present(c, o) IN
              /\ probe' = [ran |-> TRUE,
                           argv |-> get_argv(params.type, params.name, params.namespace),
                           rc |-> c, out |-> o]
              /\ IF r.raised
                 THEN /\ pc' = "error" /\ result' = unhandled
                      /\ UNCHANGED <<present, data, changed>>
                 ELSE /\ pc' = "probed" /\ result' = NoResult
                      /\ present' = r.present /\ data' = r.response
                      /\ changed' = TRUE
    /\ UNCHANGED <<params, check_mode, kubectl, rc, out, err, cmds, cluster, repeat, last, runs>>

\* module.run_command(cmd) of a mutating command: kubectl answers (c, o, e)
\* and leaves the cluster in a state the module does not control.
Run(argv, c, o, e) ==
    /\ cmds' = Append(cmds, [argv |-> argv, rc |-> c, out |-> o, err |-> e])
    /\ rc' = c /\ out' = o /\ err' = e
    /\ cluster' \in Docs

\* create(module, src, namespace), from any of the branches that call it
Create ==
    /\ \/ pc = "probed" /\ Branch(params.state, present) = "create"
       \/ pc = "deleted"
    /\ IF check_mode
       THEN /\ result' = log_change_and_exit(create_msg(params.src, params.namespace))
            /\ pc' = "exit"
            /\ UNCHANGED <<rc, out, err, cmds, cluster>>
       ELSE /\ \E c \in ExitCodes, o \in Stdouts, e \in Stderrs :
                 Run(create_argv(params.src, params.namespace), c, o, e)
            /\ pc' = "ran"
            /\ UNCHANGED result
    /\ UNCHANGED <<params, check_mode, kubectl, present, data, changed, probe, repeat, last, runs>>

\* delete(module, resource_type, name, namespace); in the recreated branch
\* a failed delete ends the invocation before create
Delete ==
    /\ pc = "probed"
    /\ Branch(params.state, present) \in {"delete", "delete_create"}
    /\ IF check_mode
       THEN /\ result' = log_change_and_exit(delete_msg(params.type, params.name, params.namespace))
            /\ pc' = "exit"
            /\ UNCHANGED <<rc, out, err, cmds, cluster>>
       ELSE \E c \in ExitCodes, o \in Stdouts, e \in Stderrs :
              /\ Run(delete_argv(params.type, params.name, params.namespace), c, o, e)
              /\ IF Branch(params.state, present) = "delete_create"
                 THEN IF Failed(c)
                      THEN pc' = "fail" /\ result' = fail_json(params.name, e, c)
                      ELSE pc' = "deleted" /\ UNCHANGED result
                 ELSE pc' = "ran" /\ UNCHANGED result
    /\ UNCHANGED <<params, check_mode, kubectl, present, data, changed, probe, repeat, last, runs>>

\* rolling_update(module, src, data, namespace)
RollingUpdate ==
    /\ pc = "probed"
    /\ Branch(params.state, present) = "rolling_update"
    /\ IF ~HasTargetName(data)
       THEN /\ pc' = "error" /\ result' = unhandled
            /\ UNCHANGED <<rc, out, err, cmds, cluster>>
       ELSE IF check_mode
       THEN /\ result' = log_change_and_exit(
                            rolling_update_msg(TargetName(data), params.src, params.namespace))
            /\ pc' = "exit"
            /\ UNCHANGED <<rc, out, err, cmds, cluster>>
       ELSE /\ \E c \in ExitCodes, o \in Stdouts, e \in Stderrs :
                 Run(rolling_update_argv(TargetName(data), params.src, params.namespace), c, o, e)
            /\ pc' = "ran"
            /\ UNCHANGED result
    /\ UNCHANGED <<params, check_mode, kubectl, present, data, changed, probe, repeat, last, runs>>

\* else: rc = 0; changed = False; err = ""; out = ""
Else ==
    /\ pc = "probed"
    /\ Branch(params.state, present) = "else"
    /\ rc' = 0 /\ changed' = FALSE /\ err' = "" /\ out' = ""
    /\ pc' = "ran"
    /\ UNCHANGED <<params, check_mode, kubectl, present, data, probe, cmds, result,
                   cluster, repeat, last, runs>>

\* if rc is not None and rc != 0: fail_json(...); otherwise exit_json(**result)
Finish ==
    /\ pc = "ran"
    /\ IF Failed(rc)
       THEN pc' = "fail" /\ result' = fail_json(params.name, err, rc)
       ELSE pc' = "exit" /\ result' = exit_json(out, err, changed)
    /\ UNCHANGED <<params, check_mode, kubectl, present, data, rc, out, err, changed,
                   probe, cmds, cluster, repeat, last, runs>>

\* The process of the invocation ends: its locals are gone, what stays is
\* the cluster as the invocation left it.
ProcessEnd ==
    /\ pc \in Terminal
    /\ last' = IF result.how = "exit_json" /\ params.state = "created"
               THEN [valid |-> TRUE, params |-> params, check_mode |-> check_mode]
               ELSE NoLast
    /\ pc' = "idle"
    /\ params' = NoParams /\ check_mode' = FALSE /\ kubectl' = TRUE
    /\ present' = FALSE /\ data' = None
    /\ rc' = 0 /\ out' = "" /\ err' = "" /\ changed' = FALSE
    /\ probe' = NoProbe /\ cmds' = <<>> /\ result' = NoResult
    /\ repeat' = FALSE
    /\ UNCHANGED <<cluster, runs>>

\* Another agent changes the cluster between two invocations.  (A change
\* during an invocation, after its probe, is not seen by it.)
OtherAgent ==
    /\ pc = "idle"
    /\ runs > 0
    /\ last.valid
    /\ cluster' \in Docs \ {cluster}
    /\ last' = NoLast
    /\ UNCHANGED <<pc, params, check_mode, kubectl, present, data, rc, out, err, changed,
                   probe, cmds, result, repeat, runs>>

Next ==
    \/ Invoke
    \/ Probe
    \/ Create
    \/ Delete
    \/ RollingUpdate
    \/ Else
    \/ Finish
    \/ ProcessEnd
    \/ OtherAgent

Spec == Init /\ [][Next]_vars

TypeOK ==
    /\ pc \in {"idle", "parsed", "probed", "deleted", "ran"} \cup Terminal
    /\ runs \in 0 .. MaxRuns
    /\ present \in BOOLEAN
    /\ cluster \in Docs

\* ================================================================ claims
Verb(c) == c.argv[2][1]
Verbs == [i \in 1 .. Len(cmds) |-> Verb(cmds[i])]
AllExitZero == \A i \in 1 .. Len(cmds) : cmds[i].rc = 0
\* is_present returned to main (it did not raise, kubectl was found)
ProbeReturned == probe.ran /\ ~is_present(probe.rc, probe.out).raised
NoOpCase == \/ params.state = "created" /\ present
            \/ params.state = "deleted" /\ ~present

\* The decision table of the specification.
Table(state, p) ==
    CASE state = "created" -> IF p THEN <<>> ELSE <<"create">>
      [] state = "deleted" -> IF p THEN <<"delete">> ELSE <<>>
      [] state = "recreated" -> IF p THEN <<"delete", "create">> ELSE <<"create">>
      [] state = "updated" -> IF p THEN <<"rolling-update">> ELSE <<"create">>

\* C1: outside check mode, an invocation whose probe returned and whose
\* commands all exited 0 has run exactly the mutating commands the decision
\* table gives for (state, present), in that order.
C1_DecisionTable ==
    (pc \in Terminal /\ ProbeReturned /\ ~check_mode /\ AllExitZero)
        => Verbs = Table(params.state, present)

\* C2: a success record says changed = false exactly when state=created and
\* the resource is present, or state=deleted and it is absent.
C2_ChangedIffNotNoOp ==
    result.how = "exit_json"
        => /\ "changed" \in result.keys
           /\ (result.changed = FALSE) <=> NoOpCase

C2_Witness ==
    /\ result.how = "exit_json" /\ result.changed = FALSE
    /\ params.state = "created" /\ present /\ check_mode

\* C3: a mutating command that exited non-zero is the last command of the
\* invocation, and the invocation ends with fail_json carrying the input
\* name, that command's stderr and its exit code, never with a success record.
C3_FailurePropagates ==
    \A i \in 1 .. Len(cmds) :
        cmds[i].rc # 0
            => /\ i = Len(cmds)
               /\ pc \in {"ran", "fail"}
               /\ pc = "fail" => /\ result.how = "fail_json"
                                 /\ result.keys = {"name", "msg", "rc"}
                                 /\ result.name = params.name
                                 /\ result.msg = <<cmds[i].err>>
                                 /\ result.rc = cmds[i].rc

C3_Witness ==
    /\ params.state = "recreated" /\ present
    /\ Verbs = <<"delete">> /\ cmds[1].rc # 0 /\ cmds[1].err = "boom"
    /\ pc = "fail" /\ result.msg = <<"boom">>

\* C4: in check mode no mutating command runs, and an invocation whose probe
\* returned ends with changed = true and a msg when (state, present) is not
\* a no-op case, with changed = false and no msg when it is.
C4_CheckMode ==
    check_mode
        => /\ cmds = <<>>
           /\ (pc \in Terminal /\ ProbeReturned)
                => /\ result.how = "exit_json"
                   /\ IF NoOpCase
                      THEN result.changed = FALSE /\ "msg" \notin result.keys
                      ELSE result.changed = TRUE /\ "msg" \in result.keys

\* C5 (as claimed): after a get that exited non-zero, present is false, data
\* is None and nothing raised; after a get that exited 0 with decodable
\* output, present is "items non-empty" for rc and "response non-empty" for
\* every other type.
C5_ByType ==
    /\ (probe.ran /\ probe.rc # 0)
         => (~present /\ data = None /\ result.how # "exception")
    /\ (pc = "probed" /\ probe.rc = 0)
         => present = IF params.type = "rc"
                      THEN Len(probe.out.doc.items) # 0
                      ELSE PyLen(probe.out.doc) # 0

\* C5 (amended): after a get that exited non-zero, present is false, data is
\* None and nothing raised; after a get that exited 0 and printed a JSON
\* object, whatever the type, present is "items non-empty" when the object
\* has an items list and "object non-empty" when it has none.
C5_ByItemsKey ==
    /\ (probe.ran /\ probe.rc # 0)
         => (~present /\ data = None /\ result.how # "exception")
    /\ (probe.ran /\ probe.rc = 0 /\ probe.out.json /\ probe.out.doc.kind = "object")
         => /\ result.how = "exception" => (params.state = "updated" /\ present)
            /\ data = probe.out.doc
            /\ present = IF "items" \in probe.out.doc.keys
                         THEN Len(probe.out.doc.items) # 0
                         ELSE PyLen(probe.out.doc) # 0

C5_Witness ==
    /\ pc = "probed" /\ probe.rc = 0 /\ params.type = "svc"
    /\ probe.out.doc.keys = {"kind", "items"} /\ probe.out.doc.items = <<>>
    /\ ~present

\* C6: a rolling-update command is run only for state=updated with the
\* resource present, and it is kubectl rolling-update <items[0].metadata.name
\* of the probe response> -f <src> --namespace=<namespace>; the check-mode
\* message names the same target.
C6_RollingUpdateTarget ==
    /\ \A i \in 1 .. Len(cmds) :
          Verb(cmds[i]) = "rolling-update"
            => /\ params.state = "updated" /\ present
               /\ cmds[i].argv = << <<"kubectl">>, <<"rolling-update">>,
                                    <<probe.out.doc.items[1].name>>, <<"-f">>, <<params.src>>,
                                    <<"--namespace=", params.namespace>> >>
    /\ (result.how = "exit_json" /\ check_mode /\ params.state = "updated" /\ present)
          => /\ result.msg[1] = "perform rolling update of rc with label"
             /\ result.msg[2] = probe.out.doc.items[1].name

C6_Witness ==
    /\ params.type = "rc" /\ params.name = "my-app" /\ params.state = "updated"
    /\ Len(cmds) = 1 /\ cmds[1].argv[3] = <<"my-app-v2">>
    /\ pc = "exit"

\* C7 (as claimed): an invocation that repeats a successful state=created
\* invocation, same inputs, cluster untouched in between, and that returns
\* a success record, has run no mutating command and reports changed = false.
C7_Idempotent ==
    (repeat /\ result.how = "exit_json")
        => (cmds = <<>> /\ result.changed = FALSE)

\* C7 (amended): such a repeated invocation runs no mutating command and
\* reports changed = false whenever its probe reports the resource present.
C7_IdempotentWhenPresent ==
    (repeat /\ ProbeReturned /\ present)
        => /\ cmds = <<>>
           /\ pc \in Terminal => (result.how = "exit_json" /\ result.changed = FALSE)

C7_Witness ==
    /\ repeat /\ ~check_mode /\ present /\ pc = "exit"
    /\ result.changed = FALSE /\ result.keys = {"stdout", "stderr", "changed"}

\* C8: an invocation with state=deleted and no src is not rejected for the
\* missing src.
C8_SrcOptionalForDeleted ==
    (params.state = "deleted" /\ params.src = NoSrc) => result # missing_src

\* C9: a get that exited 0 with output that is not JSON ends the invocation
\* with an unhandled error: nothing is run and no record is returned.
C9_UndecodableIsError ==
    (probe.ran /\ probe.rc = 0 /\ ~probe.out.json)
        => (pc = "error" /\ result.how = "exception" /\ cmds = <<>> /\ ~present)

C9_Witness ==
    /\ probe.ran /\ probe.rc = 0 /\ ~probe.out.json
    /\ params.state = "deleted" /\ pc = "error"

\* C10: whenever state=updated and the probe reported the resource present,
\* the payload has an items list with at least one element and the
\* invocation does not end with an unhandled error.
C10_RollingUpdateSafe ==
    (params.state = "updated" /\ present)
        => /\ "items" \in data.keys /\ Len(data.items) >= 1
           /\ result.how # "exception"

====
